---- MODULE Spec2Model ----
(***************************************************************************)
(* The document enrichment pipeline of PaperPulse: the structure route     *)
(* (web/app/api/paper/parse/route.ts) and the thumbnail routes             *)
(* (pdf-thumbnail, pdf-thumbnail-v2, pdf-server-render) over the shared    *)
(* `papers` table.  Time is counted in hours.                              *)
(***************************************************************************)
EXTENDS Integers, Sequences, FiniteSets, TLC

\* ---------------------------------------------------------------- bounds
MaxRequests == 2        \* requests issued in one behaviour
MaxInFlight == 2        \* requests served concurrently
MaxVariant == 1         \* distinct contents an upstream can answer with

\* ------------------------------------------------------ program constants
STRUCTURE_TTL_HOURS == 24
WEEK_HOURS == 7 * 24
COOLDOWN_HOURS == 24

\* The instants (hours) at which requests arrive: they put the age of an
\* entry below, at and above 24 hours and below and at 7 days.
Clock == {0, 24, 168}

PaperIds == {"2506.17219v1"}
Reqs == 1..MaxInFlight
Routes == {"parse", "thumbnail", "v2", "render"}
Variants == 1..MaxVariant

NoTime == 0 - 1
NoArt == [src |-> "none", v |-> 0]
Art(p, v) == [src |-> p, v |-> v]

KindOf(route) == IF route = "parse" THEN "structure" ELSE "thumbnail"

\* ------------------------------------------------------------- the table
\* A freshly inserted row: the column defaults of the migrations.
DefaultRow(id) ==
    [id |-> id,
     parsing_status |-> "pending", last_parsed_at |-> NoTime,
     parsed |-> NoArt, extraction_method |-> "none",
     thumbnail_url |-> NoArt, thumbnail_generated_at |-> NoTime,
     thumbnail_failed |-> FALSE]

\* Mutant: the patch replaces the row, columns it does not name fall back
\* to their defaults.
MergeReplacesRowMutant(row, patch) ==
    [f \in DOMAIN row |->
       IF f \in DOMAIN patch THEN patch[f] ELSE DefaultRow(row.id)[f]]

Merge(row, patch) ==
    [f \in DOMAIN row |-> IF f \in DOMAIN patch THEN patch[f] ELSE row[f]]

\* supabase.from('papers').update(patch).eq('id', id): rows that match are
\* changed, no row is created; with the columns missing the statement fails
\* and the error is returned, not thrown.
Update(rows, id, patch, colsOk) ==
    IF ~colsOk THEN rows
    ELSE {IF x.id = id THEN Merge(x, patch) ELSE x : x \in rows}

\* supabase.from('papers').upsert(patch, {onConflict: 'id'})
Upsert(rows, id, patch, colsOk) ==
    IF ~colsOk THEN rows
    ELSE IF \E x \in rows : x.id = id
         THEN {IF x.id = id THEN Merge(x, patch) ELSE x : x \in rows}
         ELSE rows \cup {Merge(DefaultRow(id), patch)}

\* .select(...).eq('id', id).single(): the row, or an error (PGRST116 when
\* not exactly one row matches, 42703 when a selected column is missing).
Single(rows, id, colsOk) ==
    LET m == {x \in rows : x.id = id} IN
    IF ~colsOk THEN [data |-> DefaultRow(id), found |-> FALSE, error |-> "42703"]
    ELSE IF Cardinality(m) = 1
         THEN [data |-> CHOOSE x \in m : TRUE, found |-> TRUE, error |-> "none"]
         ELSE [data |-> DefaultRow(id), found |-> FALSE, error |-> "PGRST116"]

\* ----------------------------------------------------------- cache policy
\* new Date(ts || 0): a missing timestamp reads as the epoch, older than any
\* window of the model.
HoursSince(ts, t) == IF ts = NoTime THEN t + WEEK_HOURS + WEEK_HOURS ELSE t - ts

\* Mutant: the hit test without the age.
ParseCacheHitLaxMutant(s, t) ==
    /\ s.found
    /\ s.data.parsing_status = "completed"
    /\ s.data.parsed # NoArt

ParseCacheHit(s, t) ==
    /\ s.found
    /\ s.data.parsing_status = "completed"
    /\ s.data.parsed # NoArt
    /\ HoursSince(s.data.last_parsed_at, t) < STRUCTURE_TTL_HOURS

\* Mutant: the hit test made against the one-day window of the failure test.
ThumbCacheHitDayMutant(s, t) ==
    /\ s.error = "none"
    /\ s.data.thumbnail_url # NoArt
    /\ s.data.thumbnail_generated_at # NoTime
    /\ s.data.thumbnail_generated_at > t - COOLDOWN_HOURS

ThumbCacheHit(s, t) ==
    /\ s.error = "none"
    /\ s.data.thumbnail_url # NoArt
    /\ s.data.thumbnail_generated_at # NoTime
    /\ s.data.thumbnail_generated_at > t - WEEK_HOURS

ThumbRecentlyFailed(s, t) ==
    /\ s.error = "none"
    /\ s.data.thumbnail_failed
    /\ s.data.thumbnail_generated_at # NoTime
    /\ s.data.thumbnail_generated_at > t - COOLDOWN_HOURS

\* --------------------------------------------------------- provider chains
\* Mutant: the chains without their last step.
ChainWithoutFallbackMutant(rt) ==
    CASE rt = "parse" ->
           <<"download", "pdf-parse", "pdfjs-dist", "smart-fallback">>
      [] rt = "thumbnail" ->
           <<"arxiv-png", "arxiv-abs-png">>
      [] rt = "v2" ->
           <<"arxiv-png", "arxiv-html-cover", "arxiv-html-fig1",
             "PageScreenshot.net", "ScreenshotAPI.net", "custom-svg">>
      [] rt = "render" ->
           <<"PDFShift", "ApiFlash", "Bannerbear", "ScrapingBee",
             "screenshotmachine", "htmlcsstoimage", "s-shot-viewer">>

Chain(rt) ==
    CASE rt = "parse" ->
           <<"download", "pdf-parse", "pdfjs-dist", "smart-fallback", "Fallback">>
      [] rt = "thumbnail" ->
           <<"arxiv-png", "arxiv-abs-png", "s-shot">>
      [] rt = "v2" ->
           <<"arxiv-png", "arxiv-html-cover", "arxiv-html-fig1",
             "PageScreenshot.net", "ScreenshotAPI.net", "custom-svg",
             "fallback-svg">>
      [] rt = "render" ->
           <<"PDFShift", "ApiFlash", "Bannerbear", "ScrapingBee",
             "screenshotmachine", "htmlcsstoimage", "s-shot-viewer",
             "placeholder">>

\* Steps whose artifact carries what the upstream answered.
ContentSteps == {"pdf-parse", "pdfjs-dist", "PDFShift", "ApiFlash",
                 "Bannerbear", "ScrapingBee", "ScreenshotAPI.net",
                 "custom-svg", "placeholder"}

\* What one step can do: answer usably ("ok"), answer non-2xx or with the
\* wrong content ("bad"), extract under 100 characters ("short"), raise, or
\* never answer ("hang").
Outcomes(p) ==
    CASE p \in {"pdf-parse", "pdfjs-dist"} -> {"ok", "short", "raise"}
      [] p \in {"smart-fallback", "Fallback", "s-shot", "fallback-svg"} ->
           {"ok", "raise"}
      [] p = "placeholder" -> {"ok", "hang"}
      [] OTHER -> {"ok", "bad", "raise", "hang"}

Terminal(rt) == Chain(rt)[Len(Chain(rt))]

\* The step of each route that computes its artifact locally from the
\* identifier alone.
GuaranteedFallback(rt) ==
    CASE rt = "parse" -> "Fallback"
      [] rt = "thumbnail" -> "s-shot"
      [] rt = "v2" -> "fallback-svg"
      [] rt = "render" -> "placeholder"

\* Mutant: a failing step ends the cascade.
AdvanceHardFailMutant(rt, i, o) ==
    LET p == Chain(rt)[i] IN
    IF o = "hang" THEN [to |-> "hung", idx |-> i]
    ELSE IF o = "ok" /\ p # "download" THEN [to |-> "store", idx |-> i]
    ELSE IF o = "ok" THEN [to |-> "cascade", idx |-> i + 1]
    ELSE IF rt = "thumbnail" THEN [to |-> "storeFailed", idx |-> i]
    ELSE [to |-> "crash", idx |-> i]

\* Mutant: after a failing step the cascade passes over the step that follows.
AdvanceSkipsMutant(rt, i, o) ==
    LET p == Chain(rt)[i] IN
    IF o = "hang" THEN [to |-> "hung", idx |-> i]
    ELSE IF o = "ok" /\ p # "download" THEN [to |-> "store", idx |-> i]
    ELSE IF o = "ok" THEN [to |-> "cascade", idx |-> i + 1]
    ELSE IF p = "download" THEN [to |-> "cascade", idx |-> Len(Chain(rt))]
    ELSE IF i + 1 < Len(Chain(rt)) THEN [to |-> "cascade", idx |-> i + 2]
    ELSE IF i < Len(Chain(rt)) THEN [to |-> "cascade", idx |-> i + 1]
    ELSE IF rt = "thumbnail" THEN [to |-> "storeFailed", idx |-> i]
    ELSE [to |-> "crash", idx |-> i]

\* Where the control flow of the cascade goes after step i of route rt ended
\* with outcome o.
Advance(rt, i, o) ==
    LET p == Chain(rt)[i] IN
    IF o = "hang" THEN [to |-> "hung", idx |-> i]
    ELSE IF o = "ok" /\ p # "download" THEN [to |-> "store", idx |-> i]
    ELSE IF o = "ok" THEN [to |-> "cascade", idx |-> i + 1]
    ELSE IF p = "download" THEN [to |-> "cascade", idx |-> Len(Chain(rt))]
    ELSE IF i < Len(Chain(rt)) THEN [to |-> "cascade", idx |-> i + 1]
    ELSE IF rt = "thumbnail" THEN [to |-> "storeFailed", idx |-> i]
    ELSE [to |-> "crash", idx |-> i]

VARIABLES now, db, parsedCols, thumbCols, issued, pc, route, doc, ferr, saw,
          tried, resp, writes, prev, follow, peer,
          stage, text, result,
          groute, gidx, gpc, awaited, called, failed, greply, gart,
          pdfUrl, thumbnailUrl, loading, error, fetches, timers, settled,
          changes

vars == <<now, db, parsedCols, thumbCols, issued, pc, route, doc, ferr, saw,
          tried, resp, writes, prev, follow, peer, stage, text, result,
          groute, gidx, gpc, awaited, called, failed, greply, gart,
          pdfUrl, thumbnailUrl, loading, error, fetches, timers, settled,
          changes>>

\* The variables of the extraction of one document (extractPDFContent).
xvars == <<stage, text, result>>

\* The variables of one run of a thumbnail generator, step by step.
gvars == <<groute, gidx, gpc, awaited, called, failed, greply, gart>>

\* The variables of one mounted PDFPreview component.
pvars == <<pdfUrl, thumbnailUrl, loading, error, fetches, timers, settled,
           changes>>
\* The variables of the requests and the table.
rvars == <<now, db, parsedCols, thumbCols, issued, pc, route, doc, ferr, saw,
           tried, resp, writes, prev, follow, peer>>

\* No text extracted yet, no result of the extraction yet.
NoText == [pre |-> 0, heads |-> <<>>, caps |-> <<>>]
NoFound == [sections |-> <<>>, figures |-> <<>>]
NoResult == [method |-> "none", sections |-> <<>>, figures |-> <<>>,
             found |-> NoFound]

NoResp == [status |-> "none", cached |-> FALSE, art |-> NoArt, why |-> "none"]
\* No earlier call to follow.  follow[r] is the call that returned its
\* artifact last before request r arrived, nothing else being served then;
\* peer[r] is the status of the answer to a request that found no entry for
\* the key of r, as r did, and returned while r was being served.
NoCall == [doc |-> "none", kind |-> "none", art |-> NoArt, at |-> NoTime]

\* No generator is being followed step by step.
NoReply == [prov |-> "none", ok |-> FALSE, ctype |-> "none", url |-> FALSE]
NoImage == [src |-> "none", meta |-> "none", date |-> 0 - 1]
GenOff ==
    /\ groute = "thumbnail"
    /\ gidx = 1
    /\ gpc = "off"
    /\ awaited = {}
    /\ called = <<>>
    /\ failed = {}
    /\ greply = NoReply
    /\ gart = NoImage

\* No PDFPreview component is mounted.
NoUrl == "none"
PreviewOff ==
    /\ pdfUrl = NoUrl
    /\ thumbnailUrl = NoUrl
    /\ loading = TRUE
    /\ error = FALSE
    /\ fetches = {}
    /\ timers = {}
    /\ settled = "none"
    /\ changes = 0

Init ==
    /\ now = 0
    /\ db \in {{}, {DefaultRow(p) : p \in PaperIds}}
    /\ parsedCols \in BOOLEAN
    /\ thumbCols \in BOOLEAN
    /\ issued = 0
    /\ pc = [r \in Reqs |-> "idle"]
    /\ route = [r \in Reqs |-> "parse"]
    /\ doc = [r \in Reqs |-> CHOOSE p \in PaperIds : TRUE]
    /\ ferr = [r \in Reqs |-> "none"]
    /\ saw = [r \in Reqs |-> "none"]
    /\ tried = [r \in Reqs |-> <<>>]
    /\ resp = [r \in Reqs |-> NoResp]
    /\ writes = [r \in Reqs |-> 0]
    /\ prev = NoCall
    /\ follow = [r \in Reqs |-> NoCall]
    /\ peer = [r \in Reqs |-> "none"]
    /\ stage = "off"
    /\ text = NoText
    /\ result = NoResult
    /\ GenOff
    /\ PreviewOff

\* The clock.  A request is served within an hour, so the clock moves only
\* while no request is between its read and its answer; a request whose
\* provider never answers does not hold the clock.
Tick ==
    /\ \A r \in Reqs : pc[r] \in {"idle", "hung"}
    /\ \E t \in Clock : t > now /\ now' = t
    /\ UNCHANGED <<db, parsedCols, thumbCols, issued, pc, route, doc, ferr, saw,
                   tried, resp, writes, prev, follow, peer>>
    /\ UNCHANGED <<xvars, gvars, pvars>>

ColsOk(rt) == IF rt = "parse" THEN parsedCols ELSE thumbCols

Success(a, c) == [status |-> "success", cached |-> c, art |-> a, why |-> "none"]
Failure(w) == [status |-> "failure", cached |-> FALSE, art |-> NoArt, why |-> w]

\* The entry of a kind, as the data model names it, in a row of the table.
EntryStatus(kind, row) ==
    IF kind = "structure" THEN row.parsing_status
    ELSE IF row.thumbnail_failed THEN "failed"
    ELSE IF row.thumbnail_url # NoArt THEN "completed"
    ELSE "pending"

EntryTime(kind, row) ==
    IF kind = "structure" THEN row.last_parsed_at
    ELSE row.thumbnail_generated_at

EntryArt(kind, row) ==
    IF kind = "structure" THEN row.parsed ELSE row.thumbnail_url

TTL(kind) == IF kind = "structure" THEN STRUCTURE_TTL_HOURS ELSE WEEK_HOURS

\* What a read at time t found, in the data model's terms.
Seen(rt, s, t) ==
    LET k == KindOf(rt)
        st == EntryStatus(k, s.data)
        age == HoursSince(EntryTime(k, s.data), t)
    IN IF s.error = "42703" THEN "nocache"
       ELSE IF ~s.found THEN "absent"
       ELSE IF st = "completed"
            THEN (IF age < TTL(k) THEN "fresh" ELSE "stale")
       ELSE IF st = "failed"
            THEN (IF age < COOLDOWN_HOURS THEN "failed_recent" ELSE "failed_old")
       ELSE st

\* Mutant: the request fails when the read reports an error.
DecideFailsOnReadErrorMutant(rt, s, t) ==
    IF s.error = "42703"
    THEN [to |-> "done", resp |-> Failure("exhausted")]
    ELSE IF rt = "parse"
    THEN IF ParseCacheHit(s, t)
         THEN [to |-> "done", resp |-> Success(s.data.parsed, TRUE)]
         ELSE [to |-> "mark", resp |-> NoResp]
    ELSE IF ThumbCacheHit(s, t)
         THEN [to |-> "done", resp |-> Success(s.data.thumbnail_url, TRUE)]
         ELSE IF rt = "thumbnail" /\ ThumbRecentlyFailed(s, t)
              THEN [to |-> "done", resp |-> Failure("recently_failed")]
              ELSE [to |-> "cascade", resp |-> NoResp]

\* Mutant: a structure request that hits the cache still marks the entry.
DecideMarksHitMutant(rt, s, t) ==
    IF rt = "parse"
    THEN IF ParseCacheHit(s, t)
         THEN [to |-> "mark", resp |-> Success(s.data.parsed, TRUE)]
         ELSE [to |-> "mark", resp |-> NoResp]
    ELSE IF ThumbCacheHit(s, t)
         THEN [to |-> "done", resp |-> Success(s.data.thumbnail_url, TRUE)]
         ELSE IF rt = "thumbnail" /\ ThumbRecentlyFailed(s, t)
              THEN [to |-> "done", resp |-> Failure("recently_failed")]
              ELSE [to |-> "cascade", resp |-> NoResp]

\* What the request does right after its read of the table: answer from the
\* cache, refuse because of a recent failure, or go on to derive.
Decide(rt, s, t) ==
    IF rt = "parse"
    THEN IF ParseCacheHit(s, t)
         THEN [to |-> "done", resp |-> Success(s.data.parsed, TRUE)]
         ELSE [to |-> "mark", resp |-> NoResp]
    ELSE IF ThumbCacheHit(s, t)
         THEN [to |-> "done", resp |-> Success(s.data.thumbnail_url, TRUE)]
         ELSE IF rt = "thumbnail" /\ ThumbRecentlyFailed(s, t)
              THEN [to |-> "done", resp |-> Failure("recently_failed")]
              ELSE [to |-> "cascade", resp |-> NoResp]

\* An answer, once computed, is sent before anything else happens.
Quiet == \A q \in Reqs : pc[q] # "done"

\* A request arrives and reads the entry of its document.
Lookup(r) ==
    /\ pc[r] = "idle"
    /\ Quiet
    /\ \A q \in Reqs : q < r => pc[q] # "idle"
    /\ issued < MaxRequests
    /\ issued' = issued + 1
    /\ \E rt \in Routes, p \in PaperIds :
         LET s == Single(db, p, ColsOk(rt))
             d == Decide(rt, s, now)
         IN /\ route' = [route EXCEPT ![r] = rt]
            /\ doc' = [doc EXCEPT ![r] = p]
            /\ ferr' = [ferr EXCEPT ![r] = s.error]
            /\ saw' = [saw EXCEPT ![r] = Seen(rt, s, now)]
            /\ pc' = [pc EXCEPT ![r] = d.to]
            /\ resp' = [resp EXCEPT ![r] = d.resp]
    /\ follow' = [follow EXCEPT ![r] = prev]
    /\ prev' = NoCall
    /\ UNCHANGED <<now, db, parsedCols, thumbCols, tried, writes, peer>>
    /\ UNCHANGED <<xvars, gvars, pvars>>

\* parse route: update({parsing_status: 'processing'})
MarkProcessing(r) ==
    /\ pc[r] = "mark"
    /\ Quiet
    /\ db' = Update(db, doc[r], [parsing_status |-> "processing"], parsedCols)
    /\ writes' = [writes EXCEPT ![r] = @ + 1]
    /\ pc' = [pc EXCEPT ![r] = "cascade"]
    /\ UNCHANGED <<now, parsedCols, thumbCols, issued, route, doc, ferr, saw,
                   tried, resp, prev, follow, peer>>
    /\ UNCHANGED <<xvars, gvars, pvars>>

\* The runs of the cascade of route rt from step i on, log being the steps
\* taken before: each run ends with an artifact ("store"), with null
\* ("storeFailed"), with an exception that reaches the route's catch block
\* ("crash"), or never ("hung").
RECURSIVE Runs(_, _, _)
Runs(rt, i, log) ==
    LET p == Chain(rt)[i]
        ends == {Advance(rt, i, o) : o \in Outcomes(p)}
    IN UNION {IF a.to = "cascade"
              THEN Runs(rt, a.idx, Append(log, p))
              ELSE {[to |-> a.to, tried |-> Append(log, p),
                     art |-> IF a.to = "store" THEN Art(p, v) ELSE NoArt] :
                    v \in IF a.to = "store" /\ p \in ContentSteps
                          THEN Variants ELSE {1}}
              : a \in ends}

\* The patch written after a successful cascade.
StorePatch(rt, a, t) ==
    IF rt = "parse"
    THEN [parsed |-> a, parsing_status |-> "completed", last_parsed_at |-> t,
          extraction_method |-> a.src]
    ELSE [thumbnail_url |-> a, thumbnail_generated_at |-> t,
          thumbnail_failed |-> FALSE]

\* The thumbnail routes skip the write when the read reported 42703.
SkipsWrite(rt, code) == rt # "parse" /\ code = "42703"

\* The table after the request's last write: the parse route updates, the
\* thumbnail routes upsert; the pdf-thumbnail route marks the failure when
\* generatePDFThumbnail returned null; an exception that reached the catch
\* block of the parse or v2 route writes nothing (the catch of the parse
\* route reads the request body a second time and gets no paperId).
Settle(rows, rt, id, code, e, t, pCols, tCols) ==
    IF e.to \in {"crash", "hung"} \/ SkipsWrite(rt, code) THEN rows
    ELSE IF e.to = "storeFailed"
    THEN Upsert(rows, id, [thumbnail_failed |-> TRUE,
                           thumbnail_generated_at |-> t], tCols)
    ELSE IF rt = "parse"
    THEN Update(rows, id, StorePatch(rt, e.art, t), pCols)
    ELSE Upsert(rows, id, StorePatch(rt, e.art, t), tCols)

Answer(e) ==
    IF e.to = "store" THEN Success(e.art, FALSE) ELSE Failure("exhausted")

\* The cascade of one request (parseArxivPaper, generatePDFThumbnail,
\* generateThumbnailV2 or generateRealPDFScreenshot), which touches nothing
\* the requests share, then the write of its result and the answer.  Of a
\* request whose provider never answers only its route is kept.
Finish(r) ==
    /\ pc[r] = "cascade"
    /\ Quiet
    /\ \E e \in Runs(route[r], 1, <<>>) :
         /\ tried' = [tried EXCEPT ![r] = IF e.to = "hung" THEN <<>> ELSE e.tried]
         /\ ferr' = [ferr EXCEPT ![r] = IF e.to = "hung" THEN "none" ELSE @]
         /\ saw' = [saw EXCEPT ![r] = IF e.to = "hung" THEN "none" ELSE @]
         /\ follow' = [follow EXCEPT ![r] = IF e.to = "hung" THEN NoCall ELSE @]
         /\ peer' = [peer EXCEPT ![r] = IF e.to = "hung" THEN "none" ELSE @]
         /\ db' = Settle(db, route[r], doc[r], ferr[r], e, now,
                         parsedCols, thumbCols)
         /\ writes' = [writes EXCEPT ![r] =
                          IF e.to = "hung" THEN 0
                          ELSE IF e.to = "crash" \/ SkipsWrite(route[r], ferr[r])
                          THEN @ ELSE @ + 1]
         /\ pc' = [pc EXCEPT ![r] = IF e.to = "hung" THEN "hung" ELSE "done"]
         /\ resp' = [resp EXCEPT ![r] = IF e.to = "hung" THEN @ ELSE Answer(e)]
         /\ prev' = IF e.to = "store" /\ \A q \in Reqs \ {r} : pc[q] = "idle"
                    THEN [doc |-> doc[r], kind |-> KindOf(route[r]),
                          art |-> e.art, at |-> now]
                    ELSE NoCall
    /\ UNCHANGED <<now, parsedCols, thumbCols, issued, route, doc>>
    /\ UNCHANGED <<xvars, gvars, pvars>>

\* The answer has been sent; the slot serves the next request.
Return(r) ==
    /\ pc[r] = "done"
    /\ pc' = [pc EXCEPT ![r] = "idle"]
    /\ ferr' = [ferr EXCEPT ![r] = "none"]
    /\ saw' = [saw EXCEPT ![r] = "none"]
    /\ tried' = [tried EXCEPT ![r] = <<>>]
    /\ resp' = [resp EXCEPT ![r] = NoResp]
    /\ writes' = [writes EXCEPT ![r] = 0]
    /\ route' = [route EXCEPT ![r] = "parse"]
    /\ follow' = [follow EXCEPT ![r] = NoCall]
    /\ peer' = [q \in Reqs |->
                 IF q = r THEN "none"
                 ELSE IF /\ pc[q] \in {"mark", "cascade"}
                         /\ doc[q] = doc[r]
                         /\ KindOf(route[q]) = KindOf(route[r])
                         /\ saw[q] = "absent"
                         /\ saw[r] = "absent"
                      THEN resp[r].status
                      ELSE peer[q]]
    /\ UNCHANGED <<now, db, parsedCols, thumbCols, issued, doc, prev>>
    /\ UNCHANGED <<xvars, gvars, pvars>>

Progress(r) == MarkProcessing(r) \/ Finish(r) \/ Return(r)

Next ==
    \/ Tick
    \/ \E r \in Reqs : Lookup(r)
    \/ \E r \in Reqs : MarkProcessing(r)
    \/ \E r \in Reqs : Finish(r)
    \/ \E r \in Reqs : Return(r)

Spec == Init /\ [][Next]_vars

\* The same requests over a table that already holds, for each document, a
\* thumbnail stored at hour 0 by an earlier request.
StoredInit ==
    /\ now = 0
    /\ db = {Merge(DefaultRow(p),
                   StorePatch("thumbnail", Art("s-shot", 1), 0)) : p \in PaperIds}
    /\ parsedCols = TRUE
    /\ thumbCols = TRUE
    /\ issued = 0
    /\ pc = [r \in Reqs |-> "idle"]
    /\ route = [r \in Reqs |-> "parse"]
    /\ doc = [r \in Reqs |-> CHOOSE p \in PaperIds : TRUE]
    /\ ferr = [r \in Reqs |-> "none"]
    /\ saw = [r \in Reqs |-> "none"]
    /\ tried = [r \in Reqs |-> <<>>]
    /\ resp = [r \in Reqs |-> NoResp]
    /\ writes = [r \in Reqs |-> 0]
    /\ prev = NoCall
    /\ follow = [r \in Reqs |-> NoCall]
    /\ peer = [r \in Reqs |-> "none"]
    /\ stage = "off"
    /\ text = NoText
    /\ result = NoResult
    /\ GenOff
    /\ PreviewOff

\* upload-thumbnail: the file is stored and its public URL is upserted as
\* the thumbnail of the paper (an upload that fails writes nothing).
Upload ==
    /\ Quiet
    /\ issued < MaxRequests
    /\ issued' = issued + 1
    /\ \E p \in PaperIds, v \in Variants :
         db' = Upsert(db, p, StorePatch("upload", Art("upload", v), now),
                      thumbCols)
    /\ prev' = NoCall
    /\ UNCHANGED <<now, parsedCols, thumbCols, pc, route, doc, ferr, saw,
                   tried, resp, writes, follow, peer>>
    /\ UNCHANGED <<xvars, gvars, pvars>>

StoredNext == Next \/ Upload

StoredSpec == StoredInit /\ [][StoredNext]_vars

\* ------------------------------------------------- the structural parser
MaxHeadings == 2        \* headings matched in one text
MIN_TEXT_CHARS == 100
MIN_SECTION_CHARS == 50
WORDS_PER_MINUTE == 200
CONTENT_CHARS == 500

Max(a, b) == IF a >= b THEN a ELSE b
\* Math.round(a / b) for a >= 0 and b > 0.
RoundDiv(a, b) == (2 * a + b) \div (2 * b)

\* sectionPatterns, in the order of the scan.
PatternOrder == <<"Abstract", "Introduction", "Related Work", "Background",
                  "Methodology", "Approach", "Experiments", "Results",
                  "Evaluation", "Discussion", "Conclusion">>
TitleChars(title) ==
    CASE title = "Abstract" -> 8
      [] title = "Related Work" -> 12
      [] title = "Results" -> 7
      [] OTHER -> 10
\* title.toLowerCase().replace(/\s+/g, '_')
SectionId(title) ==
    CASE title = "Abstract" -> "abstract"
      [] title = "Introduction" -> "introduction"
      [] title = "Related Work" -> "related_work"
      [] title = "Background" -> "background"
      [] title = "Methodology" -> "methodology"
      [] title = "Approach" -> "approach"
      [] title = "Experiments" -> "experiments"
      [] title = "Results" -> "results"
      [] title = "Evaluation" -> "evaluation"
      [] title = "Discussion" -> "discussion"
      [] title = "Conclusion" -> "conclusion"

\* A text is the characters before its first heading, its heading lines in
\* the order of the text, each with the whitespace the pattern consumes in
\* front of it (lead) and the trimmed body that follows it (characters and
\* whitespace-separated words), and its captions.
Bodies == {[chars |-> 0, words |-> 0], [chars |-> 49, words |-> 8],
           [chars |-> 50, words |-> 8], [chars |-> 51, words |-> 8],
           [chars |-> 1200, words |-> 200], [chars |-> 1200, words |-> 201],
           [chars |-> 1800, words |-> 300]}
Heads == [title : {"Abstract", "Results"}, lead : {0, 2}, body : Bodies]
HeadSeqs == UNION {[1..k -> Heads] : k \in 0..MaxHeadings}

RECURSIVE HeadChars(_)
HeadChars(hs) ==
    IF hs = <<>> THEN 0
    ELSE hs[1].lead + TitleChars(hs[1].title) + 1 + hs[1].body.chars
         + HeadChars(Tail(hs))

\* sectionMatches after the scan: the matches of the first pattern in the
\* order of the text, then those of the second pattern, and so on; index is
\* the place of the heading in the text.
RECURSIVE Scan(_, _)
Scan(hs, k) ==
    IF k > Len(PatternOrder) THEN <<>>
    ELSE LET found == {i \in DOMAIN hs : hs[i].title = PatternOrder[k]}
             ofPattern == SortSeq(
                 [j \in 1..Cardinality(found) |->
                    CHOOSE i \in found :
                      Cardinality({m \in found : m < i}) = j - 1],
                 LAMBDA a, b : a < b)
         IN [j \in 1..Len(ofPattern) |->
               [title |-> PatternOrder[k], index |-> ofPattern[j],
                lead |-> hs[ofPattern[j]].lead,
                body |-> hs[ofPattern[j]].body]]
            \o Scan(hs, k + 1)

\* sectionMatches.sort((a, b) => a.index - b.index)
SortByIndex(ms) == SortSeq(ms, LAMBDA a, b : a.index < b.index)

\* text.slice(startIndex, endIndex).trim(), startIndex being the index of the
\* match plus the length of the trimmed match: the slice starts inside the
\* heading by as many characters as the match has whitespace around it.
ContentChars(m) ==
    IF m.lead = 0 THEN m.body.chars
    ELSE IF m.body.chars = 0 THEN m.lead
    ELSE m.lead + 1 + m.body.chars

\* content.split(/\s+/).length
WordCount(m) ==
    IF m.lead = 0 THEN Max(1, m.body.words) ELSE m.body.words + 1

Keeps(m) == ContentChars(m) > MIN_SECTION_CHARS

ReadingTime(words) == Max(1, RoundDiv(words, WORDS_PER_MINUTE))

SectionOf(m) ==
    [id |-> SectionId(m.title), title |-> m.title,
     chars |-> IF ContentChars(m) > CONTENT_CHARS THEN CONTENT_CHARS + 3
               ELSE ContentChars(m),
     words |-> WordCount(m),
     reading_time |-> ReadingTime(WordCount(m))]

extractSectionsFromText(t) ==
    LET kept == SelectSeq(SortByIndex(Scan(t.heads, 1)), Keeps)
    IN [i \in 1..Len(kept) |-> SectionOf(kept[i])]

generateEnhancedSections ==
    <<[id |-> "abstract", title |-> "Abstract", chars |-> 205,
       words |-> 25, reading_time |-> 1],
      [id |-> "introduction", title |-> "1. Introduction", chars |-> 182,
       words |-> 25, reading_time |-> 3],
      [id |-> "related_work", title |-> "2. Related Work", chars |-> 166,
       words |-> 23, reading_time |-> 4],
      [id |-> "methodology", title |-> "3. Methodology", chars |-> 178,
       words |-> 21, reading_time |-> 6],
      [id |-> "experiments", title |-> "4. Experimental Setup", chars |-> 160,
       words |-> 19, reading_time |-> 5],
      [id |-> "results", title |-> "5. Results and Analysis", chars |-> 171,
       words |-> 19, reading_time |-> 4],
      [id |-> "conclusion", title |-> "6. Conclusion", chars |-> 144,
       words |-> 21, reading_time |-> 2]>>

\* ------------------------------------------------- figures and tables
MaxCaptions == 9        \* captions in one text
MAX_FIGURES == 8
MIN_CAPTION_CHARS == 15
MAX_CAPTION_CHARS == 500
FIRST_PATTERN_CHARS == 30
CLEAN_CHARS == 250

ChartWords == {"performance", "result", "comparison", "accuracy"}
DiagramWords == {"architecture", "overview", "system", "model"}
ImageWords == {"example", "sample", "image", "visual"}
KeyWords == ChartWords \cup DiagramWords \cup ImageWords \cup {"experiment"}

\* A caption is its label (Figure or Table, and a number) and its trimmed
\* description: the keywords the lower-cased description contains, its
\* length, and whether it ends with a period.
Descs == [has : {w \in SUBSET KeyWords : Cardinality(w) <= 2},
          chars : {15, 16, 31, 260, 499, 500}, period : BOOLEAN]
StdDesc == [has |-> {"model"}, chars |-> 40, period |-> TRUE]
OneCaption == {<<[kind |-> k, num |-> 3, desc |-> d]>> :
                 k \in {"fig", "table"}, d \in Descs}
\* n captions numbered round and round 1..m, upwards or downwards, all
\* figures, all tables, or one of each in turn.
Captions(n, m, order, mix) ==
    [k \in 1..n |->
       [kind |-> IF mix = "figs" \/ (mix = "both" /\ k % 2 = 1)
                 THEN "fig" ELSE "table",
        num |-> IF order = "up" THEN ((k - 1) % m) + 1
                ELSE m - ((k - 1) % m),
        desc |-> StdDesc]]
ManyCaptions == {Captions(n, m, order, mix) :
                   n \in 0..MaxCaptions, m \in 1..MaxCaptions,
                   order \in {"up", "down"}, mix \in {"figs", "tables", "both"}}

RECURSIVE CapChars(_)
CapChars(cs) ==
    IF cs = <<>> THEN 0
    ELSE 10 + cs[1].desc.chars + CapChars(Tail(cs))

\* Only a heading at the very start of the text has no whitespace in front.
WellFormed(p, hs) ==
    \A i \in DOMAIN hs : hs[i].lead = 0 <=> (i = 1 /\ p = 0)
Texts == {[pre |-> p, heads |-> <<>>, caps |-> <<>>] : p \in {0, 99, 100}}
         \cup UNION {{[pre |-> p, heads |-> hs, caps |-> <<>>] :
                        hs \in {h \in HeadSeqs : WellFormed(p, h)}}
                     : p \in {0, 100}}
         \cup {[pre |-> 100, heads |-> <<>>, caps |-> cs] :
                 cs \in OneCaption \cup ManyCaptions}

\* text.length
Length(t) == t.pre + HeadChars(t.heads) + CapChars(t.caps)

\* Of a text that is not parsed only the length is kept.
LengthOnly(t) == [pre |-> Length(t), heads |-> <<>>, caps |-> <<>>]

DetermineByClaimedWordsMutant(desc) ==
    IF desc.has \cap {"performance", "accuracy", "comparison"} # {}
    THEN "chart"
    ELSE IF desc.has \cap DiagramWords # {} THEN "diagram"
    ELSE IF desc.has \cap {"example", "sample", "visual"} # {} THEN "image"
    ELSE "diagram"

determineFigureType(desc) ==
    IF desc.has \cap ChartWords # {} THEN "chart"
    ELSE IF desc.has \cap DiagramWords # {} THEN "diagram"
    ELSE IF desc.has \cap ImageWords # {} THEN "image"
    ELSE "diagram"

\* The cleaned description: a period is added when it ends with none, and
\* past 250 characters it is cut and "..." is added.
cleanDescription(desc) ==
    LET n == IF desc.period THEN desc.chars ELSE desc.chars + 1
    IN [chars |-> IF n > CLEAN_CHARS THEN CLEAN_CHARS + 3 ELSE n,
        period |-> TRUE]

\* The matches of the three patterns of a label over the captions of the
\* text: the first pattern wants 30 characters of description, the other two
\* take any caption; each pattern goes through the text from its start.
PatternMatches(cs, kind) ==
    LET own == SelectSeq(cs, LAMBDA c : c.kind = kind)
        first == SelectSeq(own,
                   LAMBDA c : c.desc.chars >= FIRST_PATTERN_CHARS)
    IN first \o own \o own

Reasonable(c) ==
    c.desc.chars > MIN_CAPTION_CHARS /\ c.desc.chars < MAX_CAPTION_CHARS

FigureOf(c) ==
    [id |-> [prefix |-> c.kind, n |-> c.num],
     title |-> [label |-> IF c.kind = "fig" THEN "Figure" ELSE "Table",
                n |-> c.num, name |-> ""],
     description |-> cleanDescription(c.desc),
     type |-> IF c.kind = "table" THEN "table"
              ELSE determineFigureType(c.desc)]

Contextual(prefix, n, label, name, chars, type) ==
    [id |-> [prefix |-> prefix, n |-> n],
     title |-> [label |-> label, n |-> n, name |-> name],
     description |-> [chars |-> chars, period |-> TRUE], type |-> type]

\* generateContextualFigures: the words of the whole text decide.
generateContextualFigures(words) ==
    (IF words \cap {"architecture", "model", "system"} # {}
     THEN <<Contextual("fig", 1, "Figure", "System Architecture", 65,
                       "diagram")>>
     ELSE <<>>)
    \o (IF words \cap {"performance", "result", "accuracy", "comparison"} # {}
        THEN <<Contextual("fig", 2, "Figure", "Performance Results", 73,
                          "chart")>>
        ELSE <<>>)
    \o (IF "experiment" \in words
        THEN <<Contextual("table", 1, "Table", "Experimental Results", 69,
                          "table")>>
        ELSE <<>>)
    \o (IF words \cap {"image", "visual"} # {}
        THEN <<Contextual("fig", 3, "Figure", "Visual Examples", 67,
                          "image")>>
        ELSE <<>>)

UniqueKeepsAllMutant(fs) == fs

\* filter((fig, index, self) => index === self.findIndex(f => f.title === fig.title))
Unique(fs) ==
    LET first == {i \in DOMAIN fs : \A j \in 1..(i - 1) : fs[j].title # fs[i].title}
    IN [k \in 1..Cardinality(first) |->
          fs[CHOOSE i \in first : Cardinality({j \in first : j < i}) = k - 1]]

\* sort((a, b) => aNum - bNum), a stable sort on the number of the id
RECURSIVE SortByNumber(_)
SortByNumber(fs) ==
    IF fs = <<>> THEN <<>>
    ELSE LET least == CHOOSE i \in DOMAIN fs :
                        /\ \A j \in DOMAIN fs : fs[i].id.n <= fs[j].id.n
                        /\ \A j \in 1..(i - 1) : fs[j].id.n > fs[i].id.n
         IN <<fs[least]>>
            \o SortByNumber([k \in 1..(Len(fs) - 1) |->
                               IF k < least THEN fs[k] ELSE fs[k + 1]])

AllWords(cs) == UNION {cs[i].desc.has : i \in DOMAIN cs}

extractFiguresFromText(t) ==
    LET found == SelectSeq(PatternMatches(t.caps, "fig"), Reasonable)
                 \o SelectSeq(PatternMatches(t.caps, "table"), Reasonable)
        figures == IF found # <<>>
                   THEN [i \in DOMAIN found |-> FigureOf(found[i])]
                   ELSE generateContextualFigures(AllWords(t.caps))
        uniqueFigures == SortByNumber(Unique(figures))
    IN SubSeq(uniqueFigures, 1,
              IF Len(uniqueFigures) < MAX_FIGURES THEN Len(uniqueFigures)
              ELSE MAX_FIGURES)

\* The figures of a paper id that names neither VLN nor a vision paper, as
\* the id of PaperIds.
generateEnhancedFigures ==
    <<Contextual("fig", 1, "Figure", "System Overview", 110, "diagram"),
      Contextual("fig", 2, "Figure", "Performance Comparison", 108, "chart"),
      Contextual("table", 1, "Table", "Experimental Results", 109, "table")>>

\* --------------------------------------------------- the extraction chain
\* The text an extractor hands over is parsed when it has the minimum length.
UsableAnyTextMutant(t) == Length(t) > 0

Usable(t) == Length(t) >= MIN_TEXT_CHARS

ParsedKeepsEmptyMutant(method, t) ==
    [method |-> method,
     sections |-> extractSectionsFromText(t),
     figures |-> extractFiguresFromText(t),
     found |-> [sections |-> extractSectionsFromText(t),
                figures |-> extractFiguresFromText(t)]]

\* The result built from a text by either extractor; found is what the
\* parser returned for the text (the locals sections and figures).
Parsed(method, t) ==
    LET sections == extractSectionsFromText(t)
        figures == extractFiguresFromText(t)
    IN [method |-> method,
        sections |-> IF Len(sections) > 0 THEN sections
                     ELSE generateEnhancedSections,
        figures |-> IF Len(figures) > 0 THEN figures
                    ELSE generateEnhancedFigures,
        found |-> [sections |-> sections, figures |-> figures]]

\* extractPDFContent: pdf-parse hands over a text or raises.
PdfParse ==
    /\ stage = "pdf-parse"
    /\ \E t \in Texts, raises \in BOOLEAN :
         /\ raises => t = NoText
         /\ IF ~raises /\ Usable(t)
            THEN /\ stage' = "done"
                 /\ text' = t
                 /\ result' = Parsed("pdf-parse", t)
            ELSE /\ stage' = "pdfjs-dist"
                 /\ text' = LengthOnly(t)
                 /\ result' = result
    /\ UNCHANGED <<rvars, gvars, pvars>>

\* extractPDFContentWithPdfJS
PdfJs ==
    /\ stage = "pdfjs-dist"
    /\ \E t \in Texts, raises \in BOOLEAN :
         /\ raises => t = NoText
         /\ IF ~raises /\ Usable(t)
            THEN /\ stage' = "done"
                 /\ text' = t
                 /\ result' = Parsed("pdfjs-dist", t)
            ELSE /\ stage' = "smart-fallback"
                 /\ text' = LengthOnly(t)
                 /\ result' = result
    /\ UNCHANGED <<rvars, gvars, pvars>>

\* extractPDFContentManual
Manual ==
    /\ stage = "smart-fallback"
    /\ stage' = "done"
    /\ result' = [method |-> "smart-fallback",
                  sections |-> generateEnhancedSections,
                  figures |-> generateEnhancedFigures,
                  found |-> NoFound]
    /\ UNCHANGED text
    /\ UNCHANGED <<rvars, gvars, pvars>>

ExtractInit ==
    /\ now = 0
    /\ db = {}
    /\ parsedCols = TRUE
    /\ thumbCols = TRUE
    /\ issued = 0
    /\ pc = [r \in Reqs |-> "idle"]
    /\ route = [r \in Reqs |-> "parse"]
    /\ doc = [r \in Reqs |-> CHOOSE p \in PaperIds : TRUE]
    /\ ferr = [r \in Reqs |-> "none"]
    /\ saw = [r \in Reqs |-> "none"]
    /\ tried = [r \in Reqs |-> <<>>]
    /\ resp = [r \in Reqs |-> NoResp]
    /\ writes = [r \in Reqs |-> 0]
    /\ prev = NoCall
    /\ follow = [r \in Reqs |-> NoCall]
    /\ peer = [r \in Reqs |-> "none"]
    /\ stage = "pdf-parse"
    /\ text = NoText
    /\ result = NoResult
    /\ GenOff
    /\ PreviewOff

ExtractNext == PdfParse \/ PdfJs \/ Manual

ExtractSpec == ExtractInit /\ [][ExtractNext]_vars

\* -------------------------------------------- thumbnail generators, by step
\* generatePDFThumbnail, generateThumbnailV2 and generateRealPDFScreenshot,
\* one network call at a time.
ThumbRoutes == {"thumbnail", "v2", "render"}

\* The image locations of arXiv itself, probed with HEAD.
Probes == {"arxiv-png", "arxiv-abs-png", "arxiv-html-cover",
           "arxiv-html-fig1"}
\* The third-party services that render a PDF or take a screenshot of it.
Converters == {"PDFShift", "ApiFlash", "Bannerbear", "ScrapingBee",
               "PageScreenshot.net", "ScreenshotAPI.net"}
Viewers == {"screenshotmachine", "htmlcsstoimage", "s-shot-viewer"}
Services == Converters \cup Viewers \cup {"s-shot"}
\* The steps that draw an SVG page.
Synthesizers == {"custom-svg", "fallback-svg", "placeholder"}

\* What an upstream can answer: a status that is 2xx or not, a declared
\* content type, for JSON whether the body names a url; or nothing, the
\* fetch raising instead.
Replies ==
    [prov : {"any"}, ok : BOOLEAN, ctype : {"image", "html"}, url : {FALSE}]
    \cup [prov : {"any"}, ok : BOOLEAN, ctype : {"json"}, url : BOOLEAN]
    \cup [prov : {"any"}, ok : {FALSE}, ctype : {"threw"}, url : {FALSE}]
Threw(q) == q.ctype = "threw"

\* The steps that return without a network call: the pdf-thumbnail route
\* returns the address of the screenshot service as it is, and the last
\* drawing of the v2 route uses the identifier only.
Local(p) == p \in {"s-shot", "fallback-svg"}

\* The abstract page answered and title and abstract were matched in it.
Found(q) == q.ok /\ q.ctype = "html"

\* Whether the answer q to the call of step p ends the cascade with an
\* artifact.
Accepts(p, q) ==
    IF p = "placeholder" THEN TRUE
    ELSE IF p = "custom-svg" THEN Found(q)
    ELSE IF p \in Converters
    THEN q.ok /\ (q.ctype = "image" \/ (q.ctype = "json" /\ q.url))
    ELSE q.ok /\ q.ctype = "image"

\* The day new Date().toLocaleDateString() prints at hour t.
DateOf(t) == t \div 24
NoDate == 0 - 1

generateScreenshotLikePlaceholder(meta, t) ==
    [src |-> "placeholder", meta |-> meta, date |-> DateOf(t)]
generateCustomSVGThumbnail(meta) ==
    [src |-> "custom-svg", meta |-> meta, date |-> NoDate]
generateFallbackThumbnail ==
    [src |-> "fallback-svg", meta |-> "none", date |-> NoDate]

\* What step p returns at hour t after answer q was accepted.
Image(p, q, t) ==
    CASE p = "placeholder" ->
           generateScreenshotLikePlaceholder(
               IF Found(q) THEN "fetched" ELSE "default", t)
      [] p = "custom-svg" -> generateCustomSVGThumbnail("fetched")
      [] p = "fallback-svg" -> generateFallbackThumbnail
      [] OTHER -> [src |-> p, meta |-> "none", date |-> NoDate]

Step == Chain(groute)[gidx]

\* const response = await fetch(...)
GenCall ==
    /\ gpc = "run"
    /\ ~Local(Step)
    /\ gpc' = "await"
    /\ awaited' = awaited \cup {Step}
    /\ called' = Append(called, Step)
    /\ UNCHANGED <<groute, gidx, failed, greply, gart>>
    /\ UNCHANGED <<rvars, xvars, pvars>>

\* The awaited fetch settles; the step returns or the loop goes on.
GenReply ==
    /\ gpc = "await"
    /\ \E q \in Replies :
         LET o == IF Accepts(Step, q) THEN "ok"
                  ELSE IF Threw(q) THEN "raise" ELSE "bad"
             a == Advance(groute, gidx, o)
         IN /\ greply' = [q EXCEPT !.prov = Step]
            /\ awaited' = awaited \ {Step}
            /\ gart' = IF a.to = "store" THEN Image(Step, q, now) ELSE gart
            /\ failed' = IF a.to = "store" THEN failed
                         ELSE failed \cup {Step}
            /\ gidx' = a.idx
            /\ gpc' = IF a.to = "cascade" THEN "run" ELSE "done"
    /\ UNCHANGED <<groute, called>>
    /\ UNCHANGED <<rvars, xvars, pvars>>

\* A step that returns what it computes from its arguments.
GenLocal ==
    /\ gpc = "run"
    /\ Local(Step)
    /\ gart' = Image(Step, NoReply, now)
    /\ gpc' = "done"
    /\ UNCHANGED <<groute, gidx, awaited, called, failed, greply>>
    /\ UNCHANGED <<rvars, xvars, pvars>>

GenInit ==
    /\ now \in Clock
    /\ db = {}
    /\ parsedCols = TRUE
    /\ thumbCols = TRUE
    /\ issued = 0
    /\ pc = [r \in Reqs |-> "idle"]
    /\ route = [r \in Reqs |-> "parse"]
    /\ doc = [r \in Reqs |-> CHOOSE p \in PaperIds : TRUE]
    /\ ferr = [r \in Reqs |-> "none"]
    /\ saw = [r \in Reqs |-> "none"]
    /\ tried = [r \in Reqs |-> <<>>]
    /\ resp = [r \in Reqs |-> NoResp]
    /\ writes = [r \in Reqs |-> 0]
    /\ prev = NoCall
    /\ follow = [r \in Reqs |-> NoCall]
    /\ peer = [r \in Reqs |-> "none"]
    /\ stage = "off"
    /\ text = NoText
    /\ result = NoResult
    /\ groute \in ThumbRoutes
    /\ gidx = 1
    /\ gpc = "run"
    /\ awaited = {}
    /\ called = <<>>
    /\ failed = {}
    /\ greply = NoReply
    /\ gart = NoImage
    /\ PreviewOff

GenNext == GenCall \/ GenReply \/ GenLocal

GenSpec == GenInit /\ [][GenNext]_vars

\* ------------------------------------------------- the PDFPreview component
MaxChanges == 2

Urls == {"u1", "u2"}

\* What the component renders.
Displayed ==
    IF loading THEN "spinner"
    ELSE IF error \/ thumbnailUrl = NoUrl THEN "placeholder"
    ELSE thumbnailUrl

\* The effect of [cleanPdfUrl]: generateThumbnail() starts the fetch.
Mount ==
    /\ pdfUrl = NoUrl
    /\ \E u \in Urls :
         /\ pdfUrl' = u
         /\ fetches' = fetches \cup {u}
    /\ UNCHANGED <<thumbnailUrl, loading, error, timers, settled, changes>>
    /\ UNCHANGED <<rvars, xvars, gvars>>

\* The parent passes another pdfUrl: the effect runs again; the state of
\* the component is kept and nothing of the earlier run is cancelled.
ChangeUrl ==
    /\ pdfUrl # NoUrl
    /\ changes < MaxChanges
    /\ changes' = changes + 1
    /\ \E u \in Urls \ {pdfUrl} :
         /\ pdfUrl' = u
         /\ fetches' = fetches \cup {u}
    /\ settled' = "none"
    /\ UNCHANGED <<thumbnailUrl, loading, error, timers>>
    /\ UNCHANGED <<rvars, xvars, gvars>>

\* A fetch settles: with success and a thumbnailUrl, or otherwise.
Respond ==
    /\ \E u \in fetches, ok \in BOOLEAN :
         /\ fetches' = fetches \ {u}
         /\ thumbnailUrl' = IF ok THEN u ELSE thumbnailUrl
         /\ error' = IF ok THEN error ELSE TRUE
         /\ settled' = IF u # pdfUrl THEN settled
                       ELSE IF ok THEN "ok" ELSE "failed"
    /\ loading' = FALSE
    /\ UNCHANGED <<pdfUrl, timers, changes>>
    /\ UNCHANGED <<rvars, xvars, gvars>>

\* onError of the image shown: a timer of 8 seconds is started.
ImgError ==
    /\ Displayed \in Urls
    /\ timers' = timers \cup {thumbnailUrl}
    /\ UNCHANGED <<pdfUrl, thumbnailUrl, loading, error, fetches, settled,
                   changes>>
    /\ UNCHANGED <<rvars, xvars, gvars>>

\* The timer fires: setError(true).
TimerFires ==
    /\ \E u \in timers :
         /\ timers' = timers \ {u}
         /\ settled' = IF u = pdfUrl /\ settled = "ok" THEN "failed"
                       ELSE settled
    /\ error' = TRUE
    /\ UNCHANGED <<pdfUrl, thumbnailUrl, loading, fetches, changes>>
    /\ UNCHANGED <<rvars, xvars, gvars>>

PreviewNext == Mount \/ ChangeUrl \/ Respond \/ ImgError \/ TimerFires

PreviewSpec == Init /\ [][PreviewNext]_vars

\* ------------------------------------------------------------ properties
Range(q) == {q[i] : i \in DOMAIN q}
Last(q) == q[Len(q)]
\* The rows of the table that hold the entry of request r's key.
Entries(r) == {x \in db : x.id = doc[r]}
Kind(r) == KindOf(route[r])
Returned(r) == pc[r] = "done"

\* C1: when a call that missed, ran the cascade and returned an artifact is
\* followed, inside the TTL of the kind and with the cache columns present,
\* by a call for the same document and kind, the second call answers with
\* the same artifact and cached = true.
C1_SecondCallServedFromCache ==
    \A r \in Reqs :
        ( /\ Returned(r)
          /\ follow[r] # NoCall
          /\ follow[r].doc = doc[r]
          /\ follow[r].kind = Kind(r)
          /\ ferr[r] # "42703"
          /\ now - follow[r].at < TTL(Kind(r)) )
        => resp[r] = Success(follow[r].art, TRUE)

\* C2: a request whose read found a Completed entry younger than the TTL of
\* its kind answers at once with the stored artifact and cached = true,
\* having invoked no provider and written nothing.
C2_FreshEntryServedWithoutProvider ==
    \A r \in Reqs :
        saw[r] = "fresh"
        => /\ Returned(r)
           /\ tried[r] = <<>>
           /\ writes[r] = 0
           /\ resp[r].status = "success"
           /\ resp[r].cached
           /\ \E x \in Entries(r) : resp[r].art = EntryArt(Kind(r), x)

C2_Witness ==
    \E r \in Reqs :
        /\ saw[r] = "fresh"
        /\ Returned(r)
        /\ route[r] # "parse"
        /\ now >= COOLDOWN_HOURS
        /\ resp[r].cached

\* C3: a request of either kind whose read found a Failed entry younger than
\* the 24 hour cool-down answers RecentlyFailed at once and invokes no
\* provider.
C3_RecentFailureShortCircuits ==
    \A r \in Reqs :
        saw[r] = "failed_recent"
        => /\ Returned(r)
           /\ tried[r] = <<>>
           /\ resp[r] = Failure("recently_failed")

\* C4: unless the guaranteed fallback of the route was itself invoked and
\* failed, a request that ran the cascade and returned answers success with
\* an artifact, whatever the other providers did, and the entry of its key
\* is not Failed.
C4_FallbackGuaranteesArtifact ==
    \A r \in Reqs :
        ( /\ Returned(r)
          /\ tried[r] # <<>>
          /\ ~ ( /\ GuaranteedFallback(route[r]) \in Range(tried[r])
                 /\ resp[r].status = "failure" ) )
        => /\ resp[r].status = "success"
           /\ resp[r].art # NoArt
           /\ \A x \in Entries(r) : EntryStatus(Kind(r), x) # "failed"

C4_Witness ==
    \E r \in Reqs :
        /\ Returned(r)
        /\ route[r] = "v2"
        /\ tried[r] = Chain("v2")
        /\ resp[r].status = "success"
        /\ resp[r].art.src = "fallback-svg"

\* C5 as stated: a request is answered with a failure only when the cascade
\* of that request went through to the guaranteed fallback and the fallback
\* failed too.
C5_FailureOnlyWhenExhausted ==
    \A r \in Reqs :
        (Returned(r) /\ resp[r].status = "failure")
        => /\ tried[r] # <<>>
           /\ Last(tried[r]) = GuaranteedFallback(route[r])

\* C5, amended: a request is answered with a failure only when its cascade
\* went through to the guaranteed fallback and that failed too, or when it
\* was refused, no provider invoked, because of a Failed entry younger than
\* the cool-down; a failing provider, a short extraction or missing cache
\* columns alone never produce a failure.
C5_FailureOnlyWhenExhaustedOrRefused ==
    \A r \in Reqs :
        (Returned(r) /\ resp[r].status = "failure")
        => \/ /\ resp[r].why = "exhausted"
              /\ tried[r] # <<>>
              /\ Last(tried[r]) = GuaranteedFallback(route[r])
           \/ /\ resp[r].why = "recently_failed"
              /\ tried[r] = <<>>
              /\ saw[r] = "failed_recent"

C5_Witness ==
    \E r \in Reqs :
        /\ Returned(r)
        /\ ferr[r] = "42703"
        /\ resp[r] = Failure("exhausted")
        /\ Last(tried[r]) = GuaranteedFallback(route[r])

\* C6: a request whose read reported the missing cache columns (42703) is
\* served without the cache: it is not answered from the cache, it sends no
\* write to the table, and unless its guaranteed fallback failed it answers
\* success with an artifact.
C6_SchemaMismatchRunsWithoutCache ==
    \A r \in Reqs :
        (Returned(r) /\ ferr[r] = "42703")
        => /\ ~resp[r].cached
           /\ tried[r] # <<>>
           /\ writes[r] = 0
           /\ (resp[r].status = "failure"
                 => GuaranteedFallback(route[r]) \in Range(tried[r]))

\* C7: a request whose read found a Completed entry as old as the TTL of its
\* kind or older (24 hours for structure, 7 days for thumbnail) is not
\* answered from the cache; it runs the cascade, and when that yields an
\* artifact the key still has one entry only, which is Completed and holds
\* the new artifact and the time of this request.
C7_StaleEntryRederivedInPlace ==
    \A r \in Reqs :
        saw[r] = "stale"
        => /\ ~resp[r].cached
           /\ (Returned(r) => tried[r] # <<>>)
           /\ (Returned(r) /\ resp[r].status = "success")
                => /\ Cardinality(Entries(r)) = 1
                   /\ \A x \in Entries(r) :
                        /\ EntryStatus(Kind(r), x) = "completed"
                        /\ EntryArt(Kind(r), x) = resp[r].art
                        /\ EntryTime(Kind(r), x) = now

C7_Witness ==
    \E r \in Reqs :
        /\ saw[r] = "stale"
        /\ Returned(r)
        /\ resp[r].status = "success"
        /\ \E x \in Entries(r) : EntryTime(Kind(r), x) = TTL(Kind(r))

\* C8: when two requests for the same key were served at the same time,
\* each having found no entry, and both have answered success, the table
\* holds exactly one entry for the key and it is Completed.
C8_ConcurrentMissesLeaveOneEntry ==
    \A r \in Reqs :
        ( /\ Returned(r)
          /\ saw[r] = "absent"
          /\ peer[r] = "success"
          /\ resp[r].status = "success" )
        => /\ Cardinality(Entries(r)) = 1
           /\ \A x \in Entries(r) : EntryStatus(Kind(r), x) = "completed"

\* C9: a provider that raises (a timeout reported by the runtime included),
\* answers non-2xx or with the wrong content, or extracts too little, does
\* not end the request: the providers a request invoked are the chain of its
\* route taken in order from its first step, or for the structure route the
\* download followed by the fallback, and a request that answers failure has
\* gone on to the last step of its chain.
C9_SoftFailureAdvances ==
    \A r \in Reqs :
        (Returned(r) /\ tried[r] # <<>>)
        => /\ \/ tried[r] = SubSeq(Chain(route[r]), 1, Len(tried[r]))
              \/ /\ route[r] = "parse"
                 /\ tried[r] = <<"download", Terminal("parse")>>
           /\ resp[r].status = "failure"
                => Last(tried[r]) = Terminal(route[r])

C9_Witness ==
    \E r \in Reqs :
        /\ Returned(r)
        /\ route[r] = "render"
        /\ Len(tried[r]) > 4
        /\ resp[r].status = "success"

\* C10: a request that is being served can always take its next step: no
\* request waits forever for a provider that never answers.
C10_NoRequestWaitsForever ==
    \A r \in Reqs :
        pc[r] # "idle" => (~Quiet \/ ENABLED Progress(r))

\* C12: after a request that was not answered from the cache has answered
\* success, its read not having reported missing columns, the key has one
\* entry; it is Completed and holds the artifact of the answer, the time of
\* the request, and for a structure the name of the provider that produced
\* it.
C12_SuccessIsPersisted ==
    \A r \in Reqs :
        ( /\ Returned(r)
          /\ resp[r].status = "success"
          /\ ~resp[r].cached
          /\ ferr[r] # "42703" )
        => /\ Cardinality(Entries(r)) = 1
           /\ \A x \in Entries(r) :
                /\ EntryStatus(Kind(r), x) = "completed"
                /\ EntryArt(Kind(r), x) = resp[r].art
                /\ EntryTime(Kind(r), x) = now
                /\ Kind(r) = "structure"
                     => x.extraction_method = resp[r].art.src

\* C13: after a request has answered failure because every provider of its
\* chain failed, the cache columns being present, the entry of its key is
\* Failed and carries the time of the failure.
C13_ExhaustionIsPersisted ==
    \A r \in Reqs :
        ( /\ Returned(r)
          /\ resp[r] = Failure("exhausted")
          /\ ferr[r] # "42703" )
        => /\ Entries(r) # {}
           /\ \A x \in Entries(r) :
                /\ EntryStatus(Kind(r), x) = "failed"
                /\ EntryTime(Kind(r), x) = now

Kinds == {"structure", "thumbnail"}
\* The status of the entry of kind k for document id; "absent" without a row.
StatusIn(rows, id, k) ==
    IF \E x \in rows : x.id = id
    THEN EntryStatus(k, CHOOSE x \in rows : x.id = id)
    ELSE "absent"

Forward(a, b) ==
    \/ a = b
    \/ a \in {"absent", "pending"} /\ b \in {"pending", "processing"}
    \/ a = "processing" /\ b \in {"completed", "failed"}

\* C14: every step changes the status of an entry forward only, from
\* Pending to Processing and from Processing to Completed or Failed.
C14_StatusMovesForward ==
    [][\A id \in PaperIds, k \in Kinds :
          Forward(StatusIn(db, id, k), StatusIn(db', id, k))]_vars

\* C15: a request that found no entry for its key and answered success, the
\* cache columns being present, leaves an entry for the key; and no step
\* removes the entry of a key.
C15_EntryCreatedAndKept ==
    [][/\ \A x \in db : \E y \in db' : y.id = x.id
       /\ \A r \in Reqs :
            ( /\ pc'[r] = "done"
              /\ saw'[r] = "absent"
              /\ resp'[r].status = "success" )
            => \E y \in db' : y.id = doc'[r]]_vars

\* ------------------------------------------------ the structure extraction
Parsers == {"pdf-parse", "pdfjs-dist"}
ParsedDone == stage = "done" /\ result.method \in Parsers
Canned ==
    /\ result.method = "smart-fallback"
    /\ result.sections = generateEnhancedSections
    /\ result.figures = generateEnhancedFigures

\* C11: a text shorter than 100 characters is never handed to the parser
\* and never ends the chain with an error: the chain is at the next
\* extractor with no result yet, the parser has run only on a text of at
\* least 100 characters, and when the last text seen was short the chain
\* ends with the canned template.
C11_ShortTextAdvancesToCanned ==
    /\ stage \in {"pdf-parse", "pdfjs-dist", "smart-fallback", "done"}
    /\ stage \in {"pdfjs-dist", "smart-fallback"} =>
         Length(text) < MIN_TEXT_CHARS /\ result = NoResult
    /\ ParsedDone => Length(text) >= MIN_TEXT_CHARS
    /\ stage = "done" /\ Length(text) < MIN_TEXT_CHARS => Canned

\* Both extractors handed over 99 characters and the chain ended with the
\* canned template.
C11_Witness ==
    /\ stage = "done"
    /\ Length(text) = MIN_TEXT_CHARS - 1
    /\ Canned

Ids(ss) == [i \in DOMAIN ss |-> ss[i].id]

\* C16: when the parser ran on a text with no heading, the result has
\* exactly seven sections, abstract, introduction, related work,
\* methodology, experiments, results and conclusion in this order, each
\* with a reading time of at least one minute.
C16_NoHeadingGivesSevenSections ==
    ParsedDone /\ text.heads = <<>> =>
      /\ Ids(result.sections) =
           <<"abstract", "introduction", "related_work", "methodology",
             "experiments", "results", "conclusion">>
      /\ \A i \in DOMAIN result.sections :
           result.sections[i].reading_time >= 1

\* The parser ran on a text of captions only and returned no section.
C16_Witness ==
    /\ ParsedDone
    /\ text.heads = <<>>
    /\ text.caps # <<>>
    /\ result.found.sections = <<>>
    /\ Len(result.sections) = 7

\* The captions of the text a figure of the result was made from: those
\* with its label and number that passed the length filter.
CaptionsOf(f) ==
    {text.caps[i] : i \in {j \in DOMAIN text.caps :
                             /\ text.caps[j].kind = f.id.prefix
                             /\ text.caps[j].num = f.id.n
                             /\ Reasonable(text.caps[j])}}
FromCaptions ==
    ParsedDone /\ \E i \in DOMAIN text.caps : Reasonable(text.caps[i])
\* The classification under a list of chart words and a list of image
\* words; where no list applies every type is allowed, the statement
\* checked saying nothing about the case.
TypesBy(c, chart, image, rest) ==
    IF c.kind = "table" THEN {"table"}
    ELSE IF c.desc.has \cap chart # {} THEN {"chart"}
    ELSE IF c.desc.has \cap DiagramWords # {} THEN {"diagram"}
    ELSE IF c.desc.has \cap image # {} THEN {"image"}
    ELSE rest
ClassifiedBy(chart, image, rest) ==
    FromCaptions =>
      \A i \in DOMAIN result.found.figures :
        LET f == result.found.figures[i]
        IN \A c \in CaptionsOf(f) :
             /\ f.type \in TypesBy(c, chart, image, rest)
             /\ f.id = [prefix |-> c.kind, n |-> c.num]
             /\ f.description.period

\* C17 as stated: a figure caption is a chart when it contains performance,
\* accuracy or comparison, otherwise a diagram when it contains
\* architecture, overview, system or model, otherwise an image when it
\* contains example, sample or visual; a table caption is a table; the id is
\* the label and the number and the cleaned description ends in a period.
C17_ClassifiedByStatedWords ==
    ClassifiedBy({"performance", "accuracy", "comparison"},
                 {"example", "sample", "visual"},
                 {"chart", "diagram", "image", "table"})

\* C17 amended: the chart words are performance, result, comparison and
\* accuracy, the image words are example, sample, image and visual, and a
\* figure caption with none of the words of the three lists is a diagram.
C17_ClassifiedByCodeWords ==
    ClassifiedBy({"performance", "result", "comparison", "accuracy"},
                 {"example", "sample", "image", "visual"}, {"diagram"})

\* "Figure 3: Model accuracy ..." has become fig3, a chart, with a period.
C17_Witness ==
    /\ ParsedDone
    /\ Len(text.caps) = 1
    /\ text.caps[1].kind = "fig"
    /\ text.caps[1].num = 3
    /\ text.caps[1].desc = [has |-> {"model", "accuracy"}, chars |-> 31,
                             period |-> TRUE]
    /\ Len(result.figures) = 1
    /\ result.figures[1].id = [prefix |-> "fig", n |-> 3]
    /\ result.figures[1].type = "chart"
    /\ result.figures[1].description = [chars |-> 31, period |-> TRUE]

CeilDiv(a, b) == (a + b - 1) \div b

\* C18: every section the parser returned has the reading time
\* max(1, ceil(words / 200)), words being the whitespace-separated words of
\* the content cut for the section.
C18_ReadingTimeIsCeiling ==
    ParsedDone =>
      \A i \in DOMAIN result.found.sections :
        LET s == result.found.sections[i]
        IN s.reading_time = Max(1, CeilDiv(s.words, WORDS_PER_MINUTE))

Label(f) == <<f.title.label, f.title.n>>

\* C19: the list of figures and tables the parser returned for a text has
\* at most 8 entries, no two of them with the same label (Figure N or
\* Table N), and the numbers of the labels never decrease along the list.
C19_FiguresUniqueSortedCapped ==
    ParsedDone =>
      LET fs == result.found.figures
      IN /\ Len(fs) <= MAX_FIGURES
         /\ \A i, j \in DOMAIN fs : i # j => Label(fs[i]) # Label(fs[j])
         /\ \A i, j \in DOMAIN fs : i < j => fs[i].title.n <= fs[j].title.n

\* A text of more than 8 captions with distinct labels in descending order,
\* each matched by several patterns, has given 8 figures.
C19_Witness ==
    /\ ParsedDone
    /\ Len(text.caps) > MAX_FIGURES
    /\ \A i, j \in DOMAIN text.caps : i < j => text.caps[i].num > text.caps[j].num
    /\ Len(result.found.figures) = MAX_FIGURES

LongEnough(h) == h.body.chars >= MIN_SECTION_CHARS
Titles(ss) == [i \in DOMAIN ss |-> ss[i].title]

\* C20: the sections the parser returned are, in the order of the text,
\* those of the matched headings whose body, the trimmed text up to the
\* next matched heading or the end of the text, has at least 50 characters.
C20_SectionKeptIffBodyLongEnough ==
    ParsedDone =>
      Titles(result.found.sections) = Titles(SelectSeq(text.heads, LongEnough))

\* -------------------------------------------------- requests and the table
\* C24: when two requests for the same new key were served at the same
\* time, both having found no entry and both having run their cascade, the
\* entry of the key holds the artifact and the time of the request that
\* wrote last.
C24_LastWriterWins ==
    \A r \in Reqs :
        ( /\ Returned(r)
          /\ saw[r] = "absent"
          /\ peer[r] = "success"
          /\ tried[r] # <<>>
          /\ resp[r].status = "success" )
        => \E x \in Entries(r) :
             /\ EntryArt(Kind(r), x) = resp[r].art
             /\ EntryTime(Kind(r), x) = now

FromCache(q) == q.cached \/ q.why = "recently_failed"

\* C25: a request answered from the cache or refused because of a recent
\* failure is answered by the step that read the table, and that step
\* leaves the table as it was: the request has sent no write and invoked no
\* provider.
C25_CachedAnswerWritesNothing ==
    [][\A r \in Reqs :
          FromCache(resp'[r])
          => /\ pc'[r] = "done"
             /\ db' = db
             /\ writes'[r] = 0
             /\ tried'[r] = <<>>]_vars

\* A request was refused inside the cool-down of a failed entry.
C25_Witness ==
    \E r \in Reqs :
        /\ Returned(r)
        /\ resp[r] = Failure("recently_failed")
        /\ writes[r] = 0
        /\ \E x \in Entries(r) : x.thumbnail_failed

\* C26: a thumbnail request is never answered success with cached = true
\* from an entry that is marked failed; inside the cool-down of the failure
\* it is refused as RecentlyFailed.
C26_FailedEntryNeverServed ==
    \A r \in Reqs :
        (Returned(r) /\ Kind(r) = "thumbnail")
        => \A x \in Entries(r) :
             x.thumbnail_failed
             => /\ ~(resp[r].status = "success" /\ resp[r].cached)
                /\ (tried[r] = <<>> /\ HoursSince(x.thumbnail_generated_at, now)
                                         < COOLDOWN_HOURS)
                     => resp[r] = Failure("recently_failed")

\* C27: a structure request that has written Processing does not answer
\* while the entry of its key is still Processing: when its cascade raised,
\* the entry is Failed when the answer is sent.
C27_ProcessingIsNotLeftBehind ==
    \A r \in Reqs :
        (Returned(r) /\ route[r] = "parse" /\ writes[r] > 0 /\ parsedCols)
        => \A x \in Entries(r) :
             /\ x.parsing_status # "processing"
             /\ resp[r].status = "failure" => x.parsing_status = "failed"

\* C28: a structure request whose download failed answers success with the
\* canned result and leaves it in a Completed entry, the cache columns
\* being present; and a structure request that follows such a request
\* inside 24 hours is answered with that result from the cache, no provider
\* invoked.
C28_FailedDownloadIsCached ==
    \A r \in Reqs :
        (Returned(r) /\ route[r] = "parse" /\ ferr[r] # "42703")
        => /\ tried[r] = <<"download", Terminal("parse")>>
                /\ resp[r].status = "success"
              => /\ resp[r].art.src = Terminal("parse")
                 /\ \E x \in Entries(r) :
                      /\ x.parsing_status = "completed"
                      /\ x.parsed = resp[r].art
           /\ ( /\ follow[r].doc = doc[r]
                /\ follow[r].kind = "structure"
                /\ follow[r].art.src = Terminal("parse")
                /\ now - follow[r].at < STRUCTURE_TTL_HOURS )
              => /\ resp[r] = Success(follow[r].art, TRUE)
                 /\ tried[r] = <<>>

StructureFields == {"parsed", "parsing_status", "last_parsed_at",
                    "extraction_method"}
ThumbnailFields == {"thumbnail_url", "thumbnail_generated_at",
                    "thumbnail_failed"}
\* The fields fs of the record of each document; a document without a row
\* has the column defaults.
Part(rows, fs) ==
    [p \in PaperIds |->
       LET x == IF \E y \in rows : y.id = p
                THEN CHOOSE y \in rows : y.id = p
                ELSE DefaultRow(p)
       IN [f \in fs |-> x[f]]]
StructureStep ==
    \E r \in Reqs :
        route[r] = "parse" /\ pc[r] \in {"mark", "cascade"} /\ pc'[r] # pc[r]

\* C29: a step of a structure request leaves the thumbnail fields of every
\* record as they were, and every other step (of a thumbnail request or of
\* an upload) leaves the structure fields as they were.
C29_OtherKindUntouched ==
    [][IF StructureStep
       THEN Part(db', ThumbnailFields) = Part(db, ThumbnailFields)
       ELSE Part(db', StructureFields) = Part(db, StructureFields)]_vars

\* A record holds a structure and a thumbnail written after it.
C29_Witness ==
    \E x \in db :
        /\ x.parsing_status = "completed"
        /\ x.last_parsed_at = 0
        /\ x.thumbnail_generated_at > 0
        /\ ~x.thumbnail_failed

\* ------------------------------------------- claims about the generators
\* C21: a third-party service's result is the artifact only when the
\* service was called and answered 2xx with an image content type; after any
\* other answer the service has failed and the cascade has gone on.
C21_ServiceAcceptedOnlyAfterImageReply ==
    /\ gart.src \in Services
         => /\ gart.src \in Range(called)
            /\ greply.prov = gart.src
            /\ greply.ok /\ greply.ctype = "image"
    /\ (greply.prov \in Services /\ ~(greply.ok /\ greply.ctype = "image"))
         => greply.prov \in failed /\ gart.src # greply.prov

\* C22: the page a synthesizer returned is the page it returns for the same
\* document and metadata at every other time of call.
C22_SynthesizerIgnoresTime ==
    gart.src \in Synthesizers
    => \A t \in Clock : Image(gart.src, greply, t) = gart

Pos(p) == CHOOSE i \in 1..Len(Chain(groute)) : Chain(groute)[i] = p
\* The steps that have been begun.
Begun == Range(called) \cup (IF gart = NoImage THEN {} ELSE {gart.src})
OneAtATimeInOrder ==
    /\ Cardinality(awaited) <= 1
    /\ \A i, j \in DOMAIN called : i < j => Pos(called[i]) < Pos(called[j])
    /\ \A p \in Begun : \A i \in 1..(Pos(p) - 1) : Chain(groute)[i] \in failed
    /\ gart # NoImage => awaited = {}

\* C23: at most one provider is awaited at a time, providers are invoked in
\* chain order and only after every provider before them has failed, and
\* once an artifact is returned no provider is invoked.
C23_SequentialFirstSuccessWins ==
    [][/\ OneAtATimeInOrder'
       /\ gart # NoImage => called' = called /\ awaited' = awaited]_vars

\* The seventh service of the render route succeeded after six failed.
C23_Witness ==
    /\ gpc = "done"
    /\ gart.src = "s-shot-viewer"
    /\ Len(called) = 7
    /\ Cardinality(failed) = 6

\* ------------------------------------------------ claims about the preview
\* C30: once the fetch for the current pdfUrl has succeeded the thumbnail
\* of that pdfUrl is on screen, and once it has failed the placeholder is.
C30_DisplayFollowsCurrentUrl ==
    /\ settled = "ok" => Displayed = pdfUrl
    /\ settled = "failed" => Displayed = "placeholder"
====
